---- MODULE Spec2Model ----
(***************************************************************************)
(* Access-control and presentation predicates of the User list declared in *)
(* examples-next/auth/schema.ts.  The predicates are pure JavaScript arrow  *)
(* functions over ({ session, item }); they are modelled on JavaScript      *)
(* values (undefined, null, booleans, strings, numbers, objects) with the   *)
(* semantics of `.`, `?.`, `&&`, `||`, `===` and `? :`, including the       *)
(* TypeError raised by a property read on undefined or null.  The host      *)
(* framework is a loop that receives a request (session, item) and then     *)
(* evaluates the predicates of the schema on it in any order.               *)
(***************************************************************************)
EXTENDS Integers, FiniteSets, Sequences, TLC

\* ---------------------------------------------------------------- bounds
\* numeric identifiers are 1..MaxNumId (GenericItem.id is string | number)
MaxNumId == 1

\* ------------------------------------------------------ JavaScript values
Undefined == [tag |-> "undefined"]
Null      == [tag |-> "null"]
Bool(b)   == [tag |-> "boolean", b |-> b]
Str(s)    == [tag |-> "string", s |-> s]
Num(n)    == [tag |-> "number", n |-> n]
Obj(f)    == [tag |-> "object", props |-> f]
\* the completion of an expression that raised instead of returning
TypeError == [tag |-> "TypeError"]
\* marks a predicate that the framework has not called on this request
NotEvaluated == [tag |-> "notEvaluated"]

IsNullish(v) == v.tag \in {"undefined", "null"}
IsThrow(v)   == v.tag = "TypeError"

\* ToBoolean
Truthy(v) ==
  CASE v.tag = "boolean" -> v.b
    [] v.tag = "string"  -> v.s # ""
    [] v.tag = "number"  -> v.n # 0
    [] v.tag = "object"  -> TRUE
    [] OTHER             -> FALSE

\* a === b : no coercion, values of different types are never equal
StrictEq(a, b) ==
  /\ a.tag = b.tag
  /\ CASE a.tag = "boolean" -> a.b = b.b
       [] a.tag = "string"  -> a.s = b.s
       [] a.tag = "number"  -> a.n = b.n
       [] a.tag = "object"  -> a.props = b.props
       [] OTHER             -> TRUE

\* o.k : TypeError on undefined/null, undefined for a missing property
GetProp(o, k) ==
  IF IsThrow(o) THEN TypeError
  ELSE IF IsNullish(o) THEN TypeError
  ELSE IF o.tag = "object" /\ k \in DOMAIN o.props THEN o.props[k]
  ELSE Undefined

\* o?.k : undefined on undefined/null
OptProp(o, k) == IF IsNullish(o) THEN Undefined ELSE GetProp(o, k)

\* ------------------------------------------------------------- the inputs
Ids == {Str("u1"), Str("u2")} \cup {Num(n) : n \in 1..MaxNumId}

\* session.data : { isAdmin, isEnabled }, the isAdmin flag possibly missing
SessionData ==
  {Obj([isAdmin |-> Bool(a), isEnabled |-> Bool(TRUE)]) : a \in BOOLEAN}
    \cup {Obj([isEnabled |-> Bool(TRUE)])}

\* type Session = any; session?: Session.  Absent (undefined), null, or an
\* object carrying itemId and data, either of which may be missing.
Session ==
  {Undefined, Null}
    \cup {Obj([itemId |-> i, data |-> d]) : i \in Ids, d \in SessionData \cup {Null}}
    \cup {Obj([itemId |-> i]) : i \in Ids}
    \cup {Obj([data |-> d]) : d \in SessionData}

\* type GenericItem = { id: string | number; [path: string]: any }, here an
\* item of the User list: its id and the fields the list declares
GenericItem ==
  {Obj([id |-> i, name |-> Str("n"), email |-> Str("e"),
        isAdmin |-> Bool(a), isEnabled |-> Bool(TRUE)]) : i \in Ids, a \in BOOLEAN}

\* ---------------------------------------------------------- the predicates
\* the delete predicate written as the field predicates are: session?.data.isAdmin
User_access_delete_DataNotOptional(session) ==
  IF IsNullish(session) THEN Undefined
  ELSE GetProp(GetProp(session, "data"), "isAdmin")

\* the delete predicate stopping one property short: session?.data
User_access_delete_ReturnsData(session) == OptProp(session, "data")

\* delete: ({ session }) => session?.data?.isAdmin
User_access_delete(session) == OptProp(OptProp(session, "data"), "isAdmin")

\* hideDelete: ({ session }) => session?.data?.isAdmin
User_admin_hideDelete(session) == OptProp(OptProp(session, "data"), "isAdmin")

\* update: ({ session, item }) =>
\*   session && (session.data.isAdmin || session.itemId === item.itemId)
password_access_update(session, item) ==
  IF ~Truthy(session) THEN session
  ELSE LET a == GetProp(GetProp(session, "data"), "isAdmin") IN
       IF IsThrow(a) THEN TypeError
       ELSE IF Truthy(a) THEN a
       ELSE LET l == GetProp(session, "itemId")
                r == GetProp(item, "itemId") IN
            IF IsThrow(l) \/ IsThrow(r) THEN TypeError ELSE Bool(StrictEq(l, r))

\* the fieldMode predicate comparing against item.id while update keeps item.itemId
password_itemView_fieldMode_ItemId(session, item) ==
  LET c == IF ~Truthy(session) THEN session
           ELSE LET a == GetProp(GetProp(session, "data"), "isAdmin") IN
                IF IsThrow(a) THEN TypeError
                ELSE IF Truthy(a) THEN a
                ELSE LET l == GetProp(session, "itemId")
                         r == GetProp(item, "id") IN
                     IF IsThrow(l) \/ IsThrow(r) THEN TypeError
                     ELSE Bool(StrictEq(l, r))
  IN IF IsThrow(c) THEN TypeError
     ELSE IF Truthy(c) THEN Str("edit") ELSE Str("hidden")

\* fieldMode: ({ session, item }) =>
\*   session && (session.data.isAdmin || session.itemId === item.itemId)
\*     ? 'edit' : 'hidden'
password_itemView_fieldMode(session, item) ==
  LET c == IF ~Truthy(session) THEN session
           ELSE LET a == GetProp(GetProp(session, "data"), "isAdmin") IN
                IF IsThrow(a) THEN TypeError
                ELSE IF Truthy(a) THEN a
                ELSE LET l == GetProp(session, "itemId")
                         r == GetProp(item, "itemId") IN
                     IF IsThrow(l) \/ IsThrow(r) THEN TypeError
                     ELSE Bool(StrictEq(l, r))
  IN IF IsThrow(c) THEN TypeError
     ELSE IF Truthy(c) THEN Str("edit") ELSE Str("hidden")

\* the isAdmin predicate without optional chaining: session.data.isAdmin
isAdmin_access_update_NoOptionalChain(session) ==
  GetProp(GetProp(session, "data"), "isAdmin")

\* update: ({ session }) => session?.data.isAdmin
isAdmin_access_update(session) ==
  IF IsNullish(session) THEN Undefined
  ELSE GetProp(GetProp(session, "data"), "isAdmin")

\* fieldMode: ({ session }) => (session?.data.isAdmin ? 'edit' : 'read')
isAdmin_itemView_fieldMode(session) ==
  LET c == IF IsNullish(session) THEN Undefined
           ELSE GetProp(GetProp(session, "data"), "isAdmin")
  IN IF IsThrow(c) THEN TypeError
     ELSE IF Truthy(c) THEN Str("edit") ELSE Str("read")

\* the isEnabled predicate keyed on the wrong flag: session?.data.isEnabled
isEnabled_access_update_WrongFlag(session) ==
  IF IsNullish(session) THEN Undefined
  ELSE GetProp(GetProp(session, "data"), "isEnabled")

\* update: ({ session }) => session?.data.isAdmin
isEnabled_access_update(session) ==
  IF IsNullish(session) THEN Undefined
  ELSE GetProp(GetProp(session, "data"), "isAdmin")

\* fieldMode: ({ session }) => (session?.data.isAdmin ? 'edit' : 'read')
isEnabled_itemView_fieldMode(session) ==
  LET c == IF IsNullish(session) THEN Undefined
           ELSE GetProp(GetProp(session, "data"), "isAdmin")
  IN IF IsThrow(c) THEN TypeError
     ELSE IF Truthy(c) THEN Str("edit") ELSE Str("read")

\* ------------------------------------------------------------------ state
VARIABLES session, item, res
vars == <<session, item, res>>

Predicates ==
  {"delete", "hideDelete", "passwordUpdate", "passwordFieldMode",
   "isAdminUpdate", "isAdminFieldMode", "isEnabledUpdate", "isEnabledFieldMode"}

NoResults == [p \in Predicates |-> NotEvaluated]

Init ==
  /\ session \in Session
  /\ item \in GenericItem
  /\ res = NoResults

\* the framework receives another operation: a session and a target item
Request ==
  /\ session' \in Session
  /\ item' \in GenericItem
  /\ res' = NoResults

EvalDelete ==
  /\ res' = [res EXCEPT !["delete"] = User_access_delete(session)]
  /\ UNCHANGED <<session, item>>

EvalHideDelete ==
  /\ res' = [res EXCEPT !["hideDelete"] = User_admin_hideDelete(session)]
  /\ UNCHANGED <<session, item>>

EvalPasswordUpdate ==
  /\ res' = [res EXCEPT !["passwordUpdate"] = password_access_update(session, item)]
  /\ UNCHANGED <<session, item>>

EvalPasswordFieldMode ==
  /\ res' = [res EXCEPT !["passwordFieldMode"] = password_itemView_fieldMode(session, item)]
  /\ UNCHANGED <<session, item>>

EvalIsAdminUpdate ==
  /\ res' = [res EXCEPT !["isAdminUpdate"] = isAdmin_access_update(session)]
  /\ UNCHANGED <<session, item>>

EvalIsAdminFieldMode ==
  /\ res' = [res EXCEPT !["isAdminFieldMode"] = isAdmin_itemView_fieldMode(session)]
  /\ UNCHANGED <<session, item>>

EvalIsEnabledUpdate ==
  /\ res' = [res EXCEPT !["isEnabledUpdate"] = isEnabled_access_update(session)]
  /\ UNCHANGED <<session, item>>

EvalIsEnabledFieldMode ==
  /\ res' = [res EXCEPT !["isEnabledFieldMode"] = isEnabled_itemView_fieldMode(session)]
  /\ UNCHANGED <<session, item>>

Next ==
  \/ Request
  \/ EvalDelete
  \/ EvalHideDelete
  \/ EvalPasswordUpdate
  \/ EvalPasswordFieldMode
  \/ EvalIsAdminUpdate
  \/ EvalIsAdminFieldMode
  \/ EvalIsEnabledUpdate
  \/ EvalIsEnabledFieldMode

Spec == Init /\ [][Next]_vars

Evaluated(p) == res[p].tag # "notEvaluated"

\* ------------------------------------------- vocabulary of the properties
\* "a session is present"
SessionPresent == ~IsNullish(session)

\* "session.data.isAdmin is true", read off the session without evaluating
\* any expression of the schema
SessionIsAdmin ==
  /\ session.tag = "object"
  /\ "data" \in DOMAIN session.props
  /\ session.props.data.tag = "object"
  /\ "isAdmin" \in DOMAIN session.props.data.props
  /\ session.props.data.props.isAdmin = Bool(TRUE)

\* "session.data is null or undefined" on a present session
SessionWithoutData ==
  /\ session.tag = "object"
  /\ ("data" \in DOMAIN session.props => IsNullish(session.props.data))

\* "session.itemId equals item.id"
SessionIsItem ==
  /\ session.tag = "object"
  /\ "itemId" \in DOMAIN session.props
  /\ StrictEq(session.props.itemId, item.props.id)

Allows(p) == Evaluated(p) /\ ~IsThrow(res[p]) /\ Truthy(res[p])
Denies(p) == Evaluated(p) /\ ~IsThrow(res[p]) /\ ~Truthy(res[p])

AccessPredicates == {"delete", "passwordUpdate", "isAdminUpdate", "isEnabledUpdate"}

\* ------------------------------------------------------------------ C1
\* C1: password.update allows the update if and only if a session is present
\* and (session.data.isAdmin is true or session.itemId equals item.id).
\* Stated on the evaluations that return, so that a violation is a wrong
\* decision and not the TypeError of C9.
C1_PasswordUpdateAdminOrSelf ==
  (Evaluated("passwordUpdate") /\ ~IsThrow(res["passwordUpdate"])) =>
    (Allows("passwordUpdate") <=> (SessionPresent /\ (SessionIsAdmin \/ SessionIsItem)))

\* ------------------------------------------------------------------ C2
\* C2: hideDelete yields true unless session.data.isAdmin is true, in which
\* case it yields a falsy value; for session = null it is true.
C2_HideDeleteUnlessAdmin ==
  Evaluated("hideDelete") =>
    IF SessionIsAdmin THEN Denies("hideDelete")
    ELSE res["hideDelete"] = Bool(TRUE)

\* ------------------------------------------------------------------ C3
\* C3: the delete access predicate never throws and allows the delete if and
\* only if session.data.isAdmin is true (absent session, session without
\* data and isAdmin=false are denied with a falsy result), whatever the item.
C3_DeleteIffAdmin ==
  Evaluated("delete") =>
    /\ ~IsThrow(res["delete"])
    /\ Allows("delete") <=> SessionIsAdmin
    /\ ~SessionIsAdmin => Denies("delete")

C3_Witness ==
  \/ /\ Allows("delete") /\ SessionIsAdmin
  \/ /\ Denies("delete") /\ SessionWithoutData

\* ------------------------------------------------------------------ C4
\* C4: isAdmin.update and isEnabled.update allow the update if and only if
\* session.data.isAdmin is true; a non-admin or absent session is never
\* allowed, also when the item is the session's own.
C4_FlagUpdateIffAdmin ==
  \A p \in {"isAdminUpdate", "isEnabledUpdate"} :
    Evaluated(p) => (Allows(p) <=> SessionIsAdmin)

C4_Witness ==
  /\ Allows("isAdminUpdate") /\ Allows("isEnabledUpdate")
  /\ SessionIsAdmin

\* ------------------------------------------------------------------ C5
\* C5: password itemView.fieldMode returns 'edit' if and only if the session
\* is present and is an admin or the item's own user, 'hidden' otherwise.
\* Stated on the evaluations that return, as C1 is.
C5_PasswordFieldModeAdminOrSelf ==
  (Evaluated("passwordFieldMode") /\ ~IsThrow(res["passwordFieldMode"])) =>
    res["passwordFieldMode"] =
      IF SessionPresent /\ (SessionIsAdmin \/ SessionIsItem)
      THEN Str("edit") ELSE Str("hidden")

\* ------------------------------------------------------------------ C6
\* C6: presentation parity: when password.update returns a falsy value for
\* (session, item), password fieldMode on the same (session, item) returns
\* 'hidden' and never 'edit'.
C6_PresentationParity ==
  (Denies("passwordUpdate") /\ Evaluated("passwordFieldMode")) =>
    res["passwordFieldMode"] = Str("hidden")

C6_Witness ==
  /\ Denies("passwordUpdate")
  /\ res["passwordFieldMode"] = Str("hidden")
  /\ SessionPresent

\* ------------------------------------------------------------------ C7
\* C7: the fieldMode predicates of isAdmin and isEnabled return 'edit' when
\* session.data.isAdmin is true and 'read' otherwise, never 'hidden'.
C7_FlagFieldModeEditOrRead ==
  \A p \in {"isAdminFieldMode", "isEnabledFieldMode"} :
    Evaluated(p) =>
      res[p] = IF SessionIsAdmin THEN Str("edit") ELSE Str("read")

\* ------------------------------------------------------------------ C8
\* C8: with a null or absent session no predicate throws and every access
\* predicate yields a falsy result, for every item.
C8_NoSessionDenies ==
  ~SessionPresent =>
    /\ \A p \in Predicates : ~IsThrow(res[p])
    /\ \A p \in AccessPredicates : Evaluated(p) => Denies(p)

C8_Witness ==
  /\ ~SessionPresent
  /\ \A p \in Predicates : Evaluated(p)

\* ------------------------------------------------------------------ C9
\* C9: with a session whose data is null or undefined no predicate throws.
C9_NoDataNoThrow ==
  SessionWithoutData => \A p \in Predicates : ~IsThrow(res[p])

\* ------------------------------------------------------------------ C10
\* C10 as stated: every access predicate that completes returns exactly the
\* boolean true or the boolean false.
C10_ReturnsBoolean ==
  \A p \in AccessPredicates :
    (Evaluated(p) /\ ~IsThrow(res[p])) => res[p].tag = "boolean"

\* C10 amended: every access predicate that completes returns the boolean
\* true, the boolean false, undefined or null, never an object such as the
\* session, and the value is truthy only when it is the boolean true.
C10_ReturnsBooleanOrNullish ==
  \A p \in AccessPredicates :
    (Evaluated(p) /\ ~IsThrow(res[p])) =>
      /\ res[p].tag \in {"boolean", "undefined", "null"}
      /\ Truthy(res[p]) => res[p] = Bool(TRUE)

C10_Witness ==
  /\ res["delete"] = Undefined
  /\ res["passwordUpdate"] = Null
  /\ res["isAdminUpdate"] = Undefined
====
